---- MODULE Spec2Model ----
(***************************************************************************)
(* A model of the currencyapi client library:                              *)
(*   - CurrencyCode     (src/src/currency_impl.rs): validated 8-byte code  *)
(*   - Rates            (src/src/rates.rs): fixed-capacity rate table      *)
(*   - latest::Builder  (src/src/latest/url.rs, request.rs): URL writer    *)
(*   - latest::Request::send (src/src/latest/request.rs): fetch / decode   *)
(* Bytes are integers 0..255; text is a sequence of bytes.                 *)
(***************************************************************************)
EXTENDS Integers, Sequences, FiniteSets, TLC

VARIABLES
    \* ---- Rates<N, RATE> -------------------------------------------------
    cap,        \* the const generic N of the table (0: no table in this run)
    currency,   \* [MaybeUninit<CurrencyCode>; N]
    rate,       \* [MaybeUninit<RATE>; N]
    len,        \* len: u8
    live,       \* history: the (currency, rate) pairs pushed since new()/clear()
    call,       \* history: the last call on the table, its arguments and result
    fresh,      \* history: number of push calls since new() while nothing else was called, else -1
    \* ---- CurrencyCode parsing -------------------------------------------
    ppc,        \* position of the parsing run
    input,      \* the bytes handed to the parser
    result,     \* Result<CurrencyCode, Error> returned by the parser
    view,       \* the slice returned by AsRef<[u8]> for the parsed code
    \* ---- latest::Builder / latest::Request ------------------------------
    builder,    \* the Builder value: token, base_currency, currencies
    request,    \* the Request built last, and the builder it was built from
    build_seq,  \* history: number of builder transitions made
    \* ---- latest::Request::send ------------------------------------------
    spc,        \* position of the fetch: the await it is suspended at
    rl_kind,    \* the RateLimit type parameter: "RateLimit" or "RateLimitIgnore"
    response,   \* the response handed back by client.execute: status and headers
    body,       \* the payload handed back by response.bytes()
    outcome,    \* what send returned: Ok(Metadata), Err(Error) or a panic
    steps,      \* history: the decoding steps send went through
    \* ---- CurrencyCode comparisons ---------------------------------------
    ord,        \* the target's byte order, three codes, and what eq, cmp and hash gave
    \* ---- two fetches in flight at once ----------------------------------
    conc        \* per fetch: its position, its own table, what the transport
                \* handed it, and what send returned

ratesVars == <<cap, currency, rate, len, live, call, fresh>>
parseVars == <<ppc, input, result, view>>
urlVars == <<builder, request, build_seq>>
sendVars == <<spc, rl_kind, response, body, outcome, steps>>
ordVars == <<ord>>
concVars == <<conc>>
vars == <<cap, currency, rate, len, live, call, fresh, ppc, input, result, view,
          builder, request, build_seq, spc, rl_kind, response, body, outcome, steps,
          ord, conc>>

----------------------------------------------------------------------------
(* Bounds of the model *)
MaxCap == 2         \* capacities 1..MaxCap of the table
MaxIter == 3        \* longest iterator handed to extend_capped
MaxInputLen == 6    \* longest byte string handed to the parser
MaxPushCalls == 4   \* fresh push calls that are counted
MaxSel == 2         \* longest currency selection given to the builder
MaxBuilderSteps == 3 \* builder transitions before build
MaxOrdLen == 3      \* longest code among those compared

(* Program constants *)
CURRENCY_LEN_MIN == 2
CURRENCY_LEN_MAX == 5
CODE_SIZE == 8      \* mem::size_of::<CurrencyCode>()
U8 == 256           \* width of Rates::len

----------------------------------------------------------------------------
(* CurrencyCode *)

\* u8::is_ascii_uppercase
is_ascii_uppercase(c) == c \in 65..90

\* CurrencyCode::from_array_unchecked: the code followed by zeroes, 8 bytes
from_array_unchecked(code) ==
    [n \in 1..CODE_SIZE |-> IF n <= Len(code) THEN code[n] ELSE 0]

\* CurrencyCode::new_unchecked: copy into a zeroed 5-byte buffer, then pack
new_unchecked(code) ==
    from_array_unchecked([n \in 1..CURRENCY_LEN_MAX |-> IF n <= Len(code) THEN code[n] ELSE 0])

\* currency::list constants used by the model
USD == from_array_unchecked(<<85, 83, 68>>)
EUR == from_array_unchecked(<<69, 85, 82>>)
AVAX == from_array_unchecked(<<65, 86, 65, 88>>)

\* list::ARRAY: the macro takes its first token, ADA, as `$from_fn`, so the
\* array starts at AED (the codes are in the order of the source)
ARRAY ==
    <<from_array_unchecked(<<65, 69, 68>>),
      from_array_unchecked(<<65, 70, 78>>),
      from_array_unchecked(<<65, 76, 76>>),
      from_array_unchecked(<<65, 77, 68>>),
      from_array_unchecked(<<65, 78, 71>>),
      from_array_unchecked(<<65, 79, 65>>),
      from_array_unchecked(<<65, 82, 66>>),
      from_array_unchecked(<<65, 82, 83>>),
      from_array_unchecked(<<65, 85, 68>>),
      from_array_unchecked(<<65, 86, 65, 88>>),
      from_array_unchecked(<<65, 87, 71>>),
      from_array_unchecked(<<65, 90, 78>>),
      from_array_unchecked(<<66, 65, 77>>),
      from_array_unchecked(<<66, 66, 68>>),
      from_array_unchecked(<<66, 68, 84>>),
      from_array_unchecked(<<66, 71, 78>>),
      from_array_unchecked(<<66, 72, 68>>),
      from_array_unchecked(<<66, 73, 70>>),
      from_array_unchecked(<<66, 77, 68>>),
      from_array_unchecked(<<66, 78, 66>>),
      from_array_unchecked(<<66, 78, 68>>),
      from_array_unchecked(<<66, 79, 66>>),
      from_array_unchecked(<<66, 82, 76>>),
      from_array_unchecked(<<66, 83, 68>>),
      from_array_unchecked(<<66, 84, 67>>),
      from_array_unchecked(<<66, 84, 78>>),
      from_array_unchecked(<<66, 85, 83, 68>>),
      from_array_unchecked(<<66, 87, 80>>),
      from_array_unchecked(<<66, 89, 78>>),
      from_array_unchecked(<<66, 89, 82>>),
      from_array_unchecked(<<66, 90, 68>>),
      from_array_unchecked(<<67, 65, 68>>),
      from_array_unchecked(<<67, 68, 70>>),
      from_array_unchecked(<<67, 72, 70>>),
      from_array_unchecked(<<67, 76, 70>>),
      from_array_unchecked(<<67, 76, 80>>),
      from_array_unchecked(<<67, 78, 89>>),
      from_array_unchecked(<<67, 79, 80>>),
      from_array_unchecked(<<67, 82, 67>>),
      from_array_unchecked(<<67, 85, 67>>),
      from_array_unchecked(<<67, 85, 80>>),
      from_array_unchecked(<<67, 86, 69>>),
      from_array_unchecked(<<67, 90, 75>>),
      from_array_unchecked(<<68, 65, 73>>),
      from_array_unchecked(<<68, 74, 70>>),
      from_array_unchecked(<<68, 75, 75>>),
      from_array_unchecked(<<68, 79, 80>>),
      from_array_unchecked(<<68, 79, 84>>),
      from_array_unchecked(<<68, 90, 68>>),
      from_array_unchecked(<<69, 71, 80>>),
      from_array_unchecked(<<69, 82, 78>>),
      from_array_unchecked(<<69, 84, 66>>),
      from_array_unchecked(<<69, 84, 72>>),
      from_array_unchecked(<<69, 85, 82>>),
      from_array_unchecked(<<70, 74, 68>>),
      from_array_unchecked(<<70, 75, 80>>),
      from_array_unchecked(<<71, 66, 80>>),
      from_array_unchecked(<<71, 69, 76>>),
      from_array_unchecked(<<71, 71, 80>>),
      from_array_unchecked(<<71, 72, 83>>),
      from_array_unchecked(<<71, 73, 80>>),
      from_array_unchecked(<<71, 77, 68>>),
      from_array_unchecked(<<71, 78, 70>>),
      from_array_unchecked(<<71, 84, 81>>),
      from_array_unchecked(<<71, 89, 68>>),
      from_array_unchecked(<<72, 75, 68>>),
      from_array_unchecked(<<72, 78, 76>>),
      from_array_unchecked(<<72, 82, 75>>),
      from_array_unchecked(<<72, 84, 71>>),
      from_array_unchecked(<<72, 85, 70>>),
      from_array_unchecked(<<73, 68, 82>>),
      from_array_unchecked(<<73, 76, 83>>),
      from_array_unchecked(<<73, 77, 80>>),
      from_array_unchecked(<<73, 78, 82>>),
      from_array_unchecked(<<73, 81, 68>>),
      from_array_unchecked(<<73, 82, 82>>),
      from_array_unchecked(<<73, 83, 75>>),
      from_array_unchecked(<<74, 69, 80>>),
      from_array_unchecked(<<74, 77, 68>>),
      from_array_unchecked(<<74, 79, 68>>),
      from_array_unchecked(<<74, 80, 89>>),
      from_array_unchecked(<<75, 69, 83>>),
      from_array_unchecked(<<75, 71, 83>>),
      from_array_unchecked(<<75, 72, 82>>),
      from_array_unchecked(<<75, 77, 70>>),
      from_array_unchecked(<<75, 80, 87>>),
      from_array_unchecked(<<75, 82, 87>>),
      from_array_unchecked(<<75, 87, 68>>),
      from_array_unchecked(<<75, 89, 68>>),
      from_array_unchecked(<<75, 90, 84>>),
      from_array_unchecked(<<76, 65, 75>>),
      from_array_unchecked(<<76, 66, 80>>),
      from_array_unchecked(<<76, 75, 82>>),
      from_array_unchecked(<<76, 82, 68>>),
      from_array_unchecked(<<76, 83, 76>>),
      from_array_unchecked(<<76, 84, 67>>),
      from_array_unchecked(<<76, 84, 76>>),
      from_array_unchecked(<<76, 86, 76>>),
      from_array_unchecked(<<76, 89, 68>>),
      from_array_unchecked(<<77, 65, 68>>),
      from_array_unchecked(<<77, 65, 84, 73, 67>>),
      from_array_unchecked(<<77, 68, 76>>),
      from_array_unchecked(<<77, 71, 65>>),
      from_array_unchecked(<<77, 75, 68>>),
      from_array_unchecked(<<77, 77, 75>>),
      from_array_unchecked(<<77, 78, 84>>),
      from_array_unchecked(<<77, 79, 80>>),
      from_array_unchecked(<<77, 82, 79>>),
      from_array_unchecked(<<77, 85, 82>>),
      from_array_unchecked(<<77, 86, 82>>),
      from_array_unchecked(<<77, 87, 75>>),
      from_array_unchecked(<<77, 88, 78>>),
      from_array_unchecked(<<77, 89, 82>>),
      from_array_unchecked(<<77, 90, 78>>),
      from_array_unchecked(<<78, 65, 68>>),
      from_array_unchecked(<<78, 71, 78>>),
      from_array_unchecked(<<78, 73, 79>>),
      from_array_unchecked(<<78, 79, 75>>),
      from_array_unchecked(<<78, 80, 82>>),
      from_array_unchecked(<<78, 90, 68>>),
      from_array_unchecked(<<79, 77, 82>>),
      from_array_unchecked(<<79, 80>>),
      from_array_unchecked(<<80, 65, 66>>),
      from_array_unchecked(<<80, 69, 78>>),
      from_array_unchecked(<<80, 71, 75>>),
      from_array_unchecked(<<80, 72, 80>>),
      from_array_unchecked(<<80, 75, 82>>),
      from_array_unchecked(<<80, 76, 78>>),
      from_array_unchecked(<<80, 89, 71>>),
      from_array_unchecked(<<81, 65, 82>>),
      from_array_unchecked(<<82, 79, 78>>),
      from_array_unchecked(<<82, 83, 68>>),
      from_array_unchecked(<<82, 85, 66>>),
      from_array_unchecked(<<82, 87, 70>>),
      from_array_unchecked(<<83, 65, 82>>),
      from_array_unchecked(<<83, 66, 68>>),
      from_array_unchecked(<<83, 67, 82>>),
      from_array_unchecked(<<83, 68, 71>>),
      from_array_unchecked(<<83, 69, 75>>),
      from_array_unchecked(<<83, 71, 68>>),
      from_array_unchecked(<<83, 72, 80>>),
      from_array_unchecked(<<83, 76, 76>>),
      from_array_unchecked(<<83, 79, 76>>),
      from_array_unchecked(<<83, 79, 83>>),
      from_array_unchecked(<<83, 82, 68>>),
      from_array_unchecked(<<83, 84, 68>>),
      from_array_unchecked(<<83, 86, 67>>),
      from_array_unchecked(<<83, 89, 80>>),
      from_array_unchecked(<<83, 90, 76>>),
      from_array_unchecked(<<84, 72, 66>>),
      from_array_unchecked(<<84, 74, 83>>),
      from_array_unchecked(<<84, 77, 84>>),
      from_array_unchecked(<<84, 78, 68>>),
      from_array_unchecked(<<84, 79, 80>>),
      from_array_unchecked(<<84, 82, 89>>),
      from_array_unchecked(<<84, 84, 68>>),
      from_array_unchecked(<<84, 87, 68>>),
      from_array_unchecked(<<84, 90, 83>>),
      from_array_unchecked(<<85, 65, 72>>),
      from_array_unchecked(<<85, 71, 88>>),
      from_array_unchecked(<<85, 83, 68>>),
      from_array_unchecked(<<85, 83, 68, 67>>),
      from_array_unchecked(<<85, 83, 68, 84>>),
      from_array_unchecked(<<85, 89, 85>>),
      from_array_unchecked(<<85, 90, 83>>),
      from_array_unchecked(<<86, 69, 70>>),
      from_array_unchecked(<<86, 78, 68>>),
      from_array_unchecked(<<86, 85, 86>>),
      from_array_unchecked(<<87, 83, 84>>),
      from_array_unchecked(<<88, 65, 70>>),
      from_array_unchecked(<<88, 65, 71>>),
      from_array_unchecked(<<88, 65, 85>>),
      from_array_unchecked(<<88, 67, 68>>),
      from_array_unchecked(<<88, 68, 82>>),
      from_array_unchecked(<<88, 79, 70>>),
      from_array_unchecked(<<88, 80, 68>>),
      from_array_unchecked(<<88, 80, 70>>),
      from_array_unchecked(<<88, 80, 84>>),
      from_array_unchecked(<<88, 82, 80>>),
      from_array_unchecked(<<89, 69, 82>>),
      from_array_unchecked(<<90, 65, 82>>),
      from_array_unchecked(<<90, 77, 75>>),
      from_array_unchecked(<<90, 77, 87>>),
      from_array_unchecked(<<90, 87, 76>>)>>

\* list::ARRAY.len()
ARRAY_LEN == 184

\* the shortest and the longest code of list::ARRAY
OP == from_array_unchecked(<<79, 80>>)
MATIC == from_array_unchecked(<<77, 65, 84, 73, 67>>)

\* Result<CurrencyCode, Error> values
Zero8 == [n \in 1..CODE_SIZE |-> 0]
Ok(c) == [tag |-> "Ok", code |-> c, kind |-> "None", byte |-> 0]
Err(k, b) == [tag |-> "Err", code |-> Zero8, kind |-> k, byte |-> b]
NoResult == [tag |-> "NoResult", code |-> Zero8, kind |-> "None", byte |-> 0]

BadHead(c) == ~is_ascii_uppercase(c)
BadTail(c) == ~is_ascii_uppercase(c) /\ c # 0

\* value[..CURRENCY_LEN_MIN].iter().find(..): the position of the first bad
\* byte of the head, as a set of at most one position
FindHead(value) ==
    {i \in 1..CURRENCY_LEN_MIN :
        BadHead(value[i]) /\ \A j \in 1..(i - 1) : ~BadHead(value[j])}

\* value[CURRENCY_LEN_MIN..].iter().find(..): the same for the tail
FindTail(value) ==
    {i \in (CURRENCY_LEN_MIN + 1)..Len(value) :
        BadTail(value[i]) /\ \A j \in (CURRENCY_LEN_MIN + 1)..(i - 1) : ~BadTail(value[j])}

\* bad_char of try_from: Option::and of the two finds, i.e. the tail's find
\* when the head's find is Some, and None otherwise
bad_char(value) ==
    LET head == FindHead(value)
        tail == FindTail(value)
    IN  IF head = {} THEN {} ELSE {value[i] : i \in tail}

\* The outcomes of reading a CurrencyCode whose head holds a zero byte (an
\* invalid NonZeroU8, the niche of the Result): the packed value, or any Err
UbOutcomes(value) ==
    {Ok(new_unchecked(value))}
      \cup {Err(k, 0) : k \in {"TooShort", "TooLong"}}
      \cup {Err("InvalidCharacter", value[i]) : i \in 1..Len(value)}

\* variant: the characters are checked before the length
try_from_chars_first(value) ==
    LET bad == {i \in 1..Len(value) :
                    BadHead(value[i]) /\ \A j \in 1..(i - 1) : ~BadHead(value[j])}
    IN  IF bad # {} THEN {Err("InvalidCharacter", value[i]) : i \in bad}
        ELSE IF Len(value) < CURRENCY_LEN_MIN THEN {Err("TooShort", 0)}
        ELSE IF Len(value) > CURRENCY_LEN_MAX THEN {Err("TooLong", 0)}
        ELSE {Ok(new_unchecked(value))}

\* impl TryFrom<&[u8]> for CurrencyCode: the set of possible results
try_from(value) ==
    IF Len(value) < CURRENCY_LEN_MIN THEN {Err("TooShort", 0)}
    ELSE IF Len(value) > CURRENCY_LEN_MAX THEN {Err("TooLong", 0)}
    ELSE IF bad_char(value) # {} THEN {Err("InvalidCharacter", b) : b \in bad_char(value)}
    ELSE IF \E i \in 1..CURRENCY_LEN_MIN : value[i] = 0 THEN UbOutcomes(value)
    ELSE {Ok(new_unchecked(value))}

\* impl FromStr for CurrencyCode
from_str(s) == try_from(s)

\* impl PartialEq for CurrencyCode: as_u64 of both are equal, i.e. all 8 bytes
eq(a, b) == \A n \in 1..CODE_SIZE : a[n] = b[n]

\* variant: every code is taken to be three letters long
as_ref_three(self) == SubSeq(self, 1, 3)

\* impl AsRef<[u8]> for CurrencyCode
as_ref(self) ==
    LET code_tail == SubSeq(self, CURRENCY_LEN_MIN + 1, CURRENCY_LEN_MAX)
        stop == {i \in 1..Len(code_tail) : code_tail[i] = 0}
        tail_len == IF stop = {} THEN Len(code_tail)
                    ELSE (CHOOSE i \in stop : \A j \in stop : i <= j) - 1
    IN  SubSeq(self, 1, CURRENCY_LEN_MIN + tail_len)

\* CurrencyCode::as_u64: the 8 bytes of the code read as one native-endian
\* u64. The number is written as its bytes from the most significant to the
\* least: on a little-endian target the first letter is the least significant
\* byte, on a big-endian target the most significant one.
as_u64(self, endian) ==
    IF endian = "little" THEN [n \in 1..CODE_SIZE |-> self[CODE_SIZE + 1 - n]]
    ELSE self

\* u64::cmp: the most significant byte in which the two numbers differ decides
u64_cmp(x, y) ==
    LET diff == {n \in 1..CODE_SIZE : x[n] # y[n]}
    IN  IF diff = {} THEN "Equal"
        ELSE LET k == CHOOSE n \in diff : \A j \in diff : n <= j
             IN  IF x[k] < y[k] THEN "Less" ELSE "Greater"

\* variant: only code_head is compared
cmp_head(a, b, endian) ==
    u64_cmp(as_u64([n \in 1..CODE_SIZE |-> IF n <= CURRENCY_LEN_MIN THEN a[n] ELSE 0], endian),
            as_u64([n \in 1..CODE_SIZE |-> IF n <= CURRENCY_LEN_MIN THEN b[n] ELSE 0], endian))

\* variant: the two operands change places
cmp_reversed(a, b, endian) == u64_cmp(as_u64(b, endian), as_u64(a, endian))

\* impl Ord for CurrencyCode
cmp(a, b, endian) == u64_cmp(as_u64(a, endian), as_u64(b, endian))

\* impl PartialOrd for CurrencyCode, as an Option
partial_cmp(a, b, endian) == <<u64_cmp(as_u64(a, endian), as_u64(b, endian))>>

\* impl Hash for CurrencyCode: what is fed to the hasher
hash(self, endian) == as_u64(self, endian)

----------------------------------------------------------------------------
(* Parsing runs *)

\* bytes the inputs are made of: NUL, '1', 'A', 'Z', 'a'
InputBytes == {0, 49, 65, 90, 97}

SeqsUpTo(S, n) == UNION {[1..k -> S] : k \in 0..n}

Inputs == SeqsUpTo(InputBytes, MaxInputLen)

ParseIdle ==
    /\ ppc = "idle"
    /\ input = <<>>
    /\ result = NoResult
    /\ view = <<>>

InitParse ==
    /\ ppc = "input"
    /\ input \in Inputs
    /\ result = NoResult
    /\ view = <<>>

TryFrom ==
    /\ ppc = "input"
    /\ \E r \in try_from(input) : result' = r
    /\ ppc' = "parsed"
    /\ UNCHANGED <<input, view>>
    /\ UNCHANGED <<ratesVars, urlVars, sendVars, ordVars, concVars>>

FromStr ==
    /\ ppc = "input"
    /\ \A i \in 1..Len(input) : input[i] < 128
    /\ \E r \in from_str(input) : result' = r
    /\ ppc' = "parsed"
    /\ UNCHANGED <<input, view>>
    /\ UNCHANGED <<ratesVars, urlVars, sendVars, ordVars, concVars>>

AsRef ==
    /\ ppc = "parsed"
    /\ result.tag = "Ok"
    /\ view' = as_ref(result.code)
    /\ ppc' = "viewed"
    /\ UNCHANGED <<input, result>>
    /\ UNCHANGED <<ratesVars, urlVars, sendVars, ordVars, concVars>>

NextParse == TryFrom \/ FromStr \/ AsRef

----------------------------------------------------------------------------
(* Comparing codes *)

\* the codes compared: the texts of 2..MaxOrdLen letters over 'A' and 'B', and
\* "ab", which the parser lets through
OrdTexts == {t \in SeqsUpTo({65, 66}, MaxOrdLen) : Len(t) >= CURRENCY_LEN_MIN}
OrdCodes == {new_unchecked(t) : t \in OrdTexts} \cup {new_unchecked(<<97, 98>>)}

\* the byte orders of the targets the crate is built for
Endians == {"little", "big"}

NoOrdRes == [eq_ab |-> FALSE, cmp_ab |-> "", cmp_ba |-> "", cmp_bc |-> "", cmp_ac |-> "",
             cmp_aa |-> "", partial_ab |-> <<>>, hash_a |-> <<>>, hash_b |-> <<>>]

OrdIdle == ord = [endian |-> "", a |-> Zero8, b |-> Zero8, c |-> Zero8,
                  done |-> {}, res |-> NoOrdRes]

InitOrd ==
    \E e \in Endians, a \in OrdCodes, b \in OrdCodes, c \in OrdCodes :
        ord = [endian |-> e, a |-> a, b |-> b, c |-> c, done |-> {}, res |-> NoOrdRes]

\* a == b
CodeEq ==
    /\ ord.endian # ""
    /\ "eq" \notin ord.done
    /\ ord' = [ord EXCEPT !.done = @ \cup {"eq"},
                          !.res.eq_ab = eq(ord.a, ord.b)]
    /\ UNCHANGED <<ratesVars, parseVars, urlVars, sendVars, concVars>>

\* a.cmp(&b) and the other comparisons among a, b and c
CodeCmp ==
    /\ ord.endian # ""
    /\ "cmp" \notin ord.done
    /\ ord' = [ord EXCEPT !.done = @ \cup {"cmp"},
                          !.res.cmp_ab = cmp(ord.a, ord.b, ord.endian),
                          !.res.cmp_ba = cmp(ord.b, ord.a, ord.endian),
                          !.res.cmp_bc = cmp(ord.b, ord.c, ord.endian),
                          !.res.cmp_ac = cmp(ord.a, ord.c, ord.endian),
                          !.res.cmp_aa = cmp(ord.a, ord.a, ord.endian),
                          !.res.partial_ab = partial_cmp(ord.a, ord.b, ord.endian)]
    /\ UNCHANGED <<ratesVars, parseVars, urlVars, sendVars, concVars>>

\* a.hash(..) and b.hash(..)
CodeHash ==
    /\ ord.endian # ""
    /\ "hash" \notin ord.done
    /\ ord' = [ord EXCEPT !.done = @ \cup {"hash"},
                          !.res.hash_a = hash(ord.a, ord.endian),
                          !.res.hash_b = hash(ord.b, ord.endian)]
    /\ UNCHANGED <<ratesVars, parseVars, urlVars, sendVars, concVars>>

NextOrd == CodeEq \/ CodeCmp \/ CodeHash

----------------------------------------------------------------------------
(* Rates *)

\* the content of a slot that was never written (never read below len)
UninitCode == [n \in 1..CODE_SIZE |-> 255]
UninitRate == -1

Currencies == {USD, EUR}
RateValues == {1, 2}
Entries == Currencies \X RateValues

NoCall == [op |-> "none", arg |-> <<>>, pre |-> <<>>, ret |-> FALSE, val |-> <<>>]

RatesIdle ==
    /\ cap = 0
    /\ currency = <<>>
    /\ rate = <<>>
    /\ len = 0
    /\ live = <<>>
    /\ call = NoCall
    /\ fresh = -1

\* Rates::len
rates_len == len

\* Rates::is_empty
is_empty == len = 0

\* variant: the whole array, whatever len is
currencies_all == [i \in 1..cap |-> currency[i]]

\* Rates::currencies: the slots below len
currencies == [i \in 1..len |-> currency[i]]

\* Rates::rates: the slots below len
rates == [i \in 1..len |-> rate[i]]

Min(a, b) == IF a <= b THEN a ELSE b

\* Rates::iter: the two slices zipped
iter == [i \in 1..Min(Len(currencies), Len(rates)) |-> <<currencies[i], rates[i]>>]

\* variant: the rate of the last pair whose currency is c
get_last(c) ==
    LET hits == {i \in 1..Len(iter) : eq(iter[i][1], c)}
    IN  IF hits = {} THEN <<>>
        ELSE <<iter[CHOOSE i \in hits : \A j \in hits : i >= j][2]>>

\* Rates::get: the rate of the first pair of iter whose currency is c, as an
\* Option (<<>> is None, <<r>> is Some(r))
get(c) ==
    LET hits == {i \in 1..Len(iter) : eq(iter[i][1], c)}
    IN  IF hits = {} THEN <<>>
        ELSE <<iter[CHOOSE i \in hits : \A j \in hits : i <= j][2]>>

\* RATE arithmetic: a value is a reduced fraction [num, den]; a rate n of the
\* table is n/1. Undefined is what the division by a zero rate gives and what
\* a product with it gives (NaN or an infinity for f64, a panic for Decimal).
Undefined == [num |-> 0, den |-> 0]

RECURSIVE GCD(_, _)
GCD(a, b) == IF b = 0 THEN a ELSE GCD(b, a % b)

Ratio(n, d) == [num |-> n \div GCD(n, d), den |-> d \div GCD(n, d)]

\* &RATE / &RATE
rate_div(a, b) == IF b = 0 THEN Undefined ELSE Ratio(a, b)

\* &RATE * RATE
rate_mul(a, q) == IF q = Undefined THEN Undefined ELSE Ratio(a * q.num, q.den)

\* variant: the two rates change places
convert_swapped(amount, from, to) ==
    IF get(from) = <<>> \/ get(to) = <<>> THEN <<>>
    ELSE <<rate_mul(amount, rate_div(get(from)[1], get(to)[1]))>>

\* variant: the rate of `from` is left out
convert_no_div(amount, from, to) ==
    IF get(from) = <<>> \/ get(to) = <<>> THEN <<>>
    ELSE <<rate_mul(amount, Ratio(get(to)[1], 1))>>

\* Rates::convert, as an Option
convert(amount, from, to) ==
    IF get(from) = <<>> THEN <<>>
    ELSE IF get(to) = <<>> THEN <<>>
    ELSE <<rate_mul(amount, rate_div(get(to)[1], get(from)[1]))>>

\* variant: the entry is written into the first slot
push_unchecked_first(t, c, r) ==
    [currency |-> [t.currency EXCEPT ![1] = c],
     rate     |-> [t.rate EXCEPT ![1] = r],
     len      |-> (t.len + 1) % U8,
     ret      |-> TRUE]

\* the table after push_unchecked: write slot len, then len += 1 on a u8
push_unchecked(t, c, r) ==
    [currency |-> [t.currency EXCEPT ![t.len + 1] = c],
     rate     |-> [t.rate EXCEPT ![t.len + 1] = r],
     len      |-> (t.len + 1) % U8,
     ret      |-> TRUE]

\* variant: the capacity test is off by one
push_le(t, n, c, r) ==
    IF t.len <= n THEN push_unchecked(t, c, r)
    ELSE [t EXCEPT !.ret = FALSE]

\* the table after push, with its return value
push(t, n, c, r) ==
    IF t.len < n THEN push_unchecked(t, c, r)
    ELSE [t EXCEPT !.ret = FALSE]

\* variant: the result of push is ignored
RECURSIVE extend_capped_ignore(_, _, _)
extend_capped_ignore(t, n, it) ==
    IF it = <<>> THEN [t EXCEPT !.ret = TRUE]
    ELSE extend_capped_ignore(push(t, n, it[1][1], it[1][2]), n, Tail(it))

\* the table after extend_capped, with its return value
RECURSIVE extend_capped(_, _, _)
extend_capped(t, n, it) ==
    IF it = <<>> THEN [t EXCEPT !.ret = TRUE]
    ELSE LET p == push(t, n, it[1][1], it[1][2])
         IN  IF ~p.ret THEN p ELSE extend_capped(p, n, Tail(it))

Table == [currency |-> currency, rate |-> rate, len |-> len, ret |-> FALSE]

\* Rates::new as a value: the empty table of capacity n
new_table(n) ==
    [currency |-> [i \in 1..n |-> UninitCode], rate |-> [i \in 1..n |-> UninitRate],
     len |-> 0, ret |-> FALSE]

\* Rates::iter of a table value
table_iter(t) == [i \in 1..t.len |-> <<t.currency[i], t.rate[i]>>]

InitRates ==
    /\ cap \in 1..MaxCap
    /\ currency = [i \in 1..cap |-> UninitCode]
    /\ rate = [i \in 1..cap |-> UninitRate]
    /\ len = 0
    /\ live = <<>>
    /\ call = NoCall
    /\ fresh = 0

\* Rates::new
New ==
    /\ cap > 0
    /\ spc = "idle"
    /\ currency' = [i \in 1..cap |-> UninitCode]
    /\ rate' = [i \in 1..cap |-> UninitRate]
    /\ len' = 0
    /\ live' = <<>>
    /\ call' = [op |-> "new", arg |-> <<>>, pre |-> iter, ret |-> FALSE, val |-> <<>>]
    /\ fresh' = 0
    /\ UNCHANGED cap
    /\ UNCHANGED <<parseVars, urlVars, sendVars, ordVars, concVars>>

\* variant: the count survives the clear
Clear_keep ==
    /\ cap > 0
    /\ spc = "idle"
    /\ len' = len
    /\ live' = <<>>
    /\ call' = [op |-> "clear", arg |-> <<>>, pre |-> iter, ret |-> FALSE, val |-> <<>>]
    /\ fresh' = -1
    /\ UNCHANGED <<cap, currency, rate>>
    /\ UNCHANGED <<parseVars, urlVars, sendVars, ordVars, concVars>>

\* Rates::clear
Clear ==
    /\ cap > 0
    /\ spc = "idle"
    /\ len' = 0
    /\ live' = <<>>
    /\ call' = [op |-> "clear", arg |-> <<>>, pre |-> iter, ret |-> FALSE, val |-> <<>>]
    /\ fresh' = -1
    /\ UNCHANGED <<cap, currency, rate>>
    /\ UNCHANGED <<parseVars, urlVars, sendVars, ordVars, concVars>>

\* Rates::push
Push ==
    /\ cap > 0
    /\ spc = "idle"
    /\ \E e \in Entries :
        LET p == push(Table, cap, e[1], e[2])
        IN  /\ currency' = p.currency
            /\ rate' = p.rate
            /\ len' = p.len
            /\ live' = IF p.ret THEN Append(live, e) ELSE live
            /\ call' = [op |-> "push", arg |-> <<e>>, pre |-> iter, ret |-> p.ret, val |-> <<>>]
    /\ fresh' = IF fresh >= 0 /\ fresh < MaxPushCalls THEN fresh + 1 ELSE -1
    /\ UNCHANGED cap
    /\ UNCHANGED <<parseVars, urlVars, sendVars, ordVars, concVars>>

\* Rates::extend_capped
ExtendCapped ==
    /\ cap > 0
    /\ spc = "idle"
    /\ \E it \in SeqsUpTo(Entries, MaxIter) :
        LET p == extend_capped(Table, cap, it)
        IN  /\ currency' = p.currency
            /\ rate' = p.rate
            /\ len' = p.len
            /\ live' = live \o SubSeq(it, 1, p.len - len)
            /\ call' = [op |-> "extend_capped", arg |-> it, pre |-> iter, ret |-> p.ret, val |-> <<>>]
    /\ fresh' = -1
    /\ UNCHANGED cap
    /\ UNCHANGED <<parseVars, urlVars, sendVars, ordVars, concVars>>

\* a call of Rates::get
Get ==
    /\ cap > 0
    /\ spc = "idle"
    /\ \E c \in Currencies :
        call' = [op |-> "get", arg |-> <<c>>, pre |-> iter, ret |-> FALSE, val |-> get(c)]
    /\ fresh' = -1
    /\ UNCHANGED <<cap, currency, rate, len, live>>
    /\ UNCHANGED <<parseVars, urlVars, sendVars, ordVars, concVars>>

\* Tables whose capacity N is around the range of the u8 count

WideCaps == {U8 - 1, U8, U8 + 1}

\* a table that a caller filled with pushes of (USD, 1) up to a few slots
\* below the range of the count
InitWide ==
    /\ cap \in WideCaps
    /\ \E k \in {U8 - 3, U8 - 2} :
        /\ currency = [i \in 1..cap |-> IF i <= k THEN USD ELSE UninitCode]
        /\ rate = [i \in 1..cap |-> IF i <= k THEN 1 ELSE UninitRate]
        /\ len = k
        /\ live = [i \in 1..k |-> <<USD, 1>>]
    /\ call = NoCall
    /\ fresh = -1

\* Rates::push of (USD, 1) where `self.len += 1` may leave the u8: a build
\* with overflow checks panics at the addition, after the slots were written
\* and before push returns; a build without them wraps the count to 0
PushWide ==
    /\ cap \in WideCaps
    /\ spc = "idle"
    /\ Len(live) < U8 + 2
    /\ \E overflow_checks \in BOOLEAN :
        LET p == push(Table, cap, USD, 1)
        IN  IF overflow_checks /\ len < cap /\ len + 1 >= U8
            THEN /\ currency' = p.currency
                 /\ rate' = p.rate
                 /\ len' = len
                 /\ live' = live
                 /\ call' = [op |-> "push_overflow", arg |-> <<<<USD, 1>>>>, pre |-> iter,
                             ret |-> FALSE, val |-> <<>>]
            ELSE /\ currency' = p.currency
                 /\ rate' = p.rate
                 /\ len' = p.len
                 /\ live' = IF p.ret THEN Append(live, <<USD, 1>>) ELSE live
                 /\ call' = [op |-> "push", arg |-> <<<<USD, 1>>>>, pre |-> iter,
                             ret |-> p.ret, val |-> <<>>]
    /\ fresh' = -1
    /\ UNCHANGED cap
    /\ UNCHANGED <<parseVars, urlVars, sendVars, ordVars, concVars>>

NextWide == PushWide \/ Clear

\* the amounts a caller converts
Amounts == {0, 1, 3}

\* a call of Rates::convert
Convert ==
    /\ cap > 0
    /\ spc = "idle"
    /\ \E a \in Amounts, from \in Currencies, to \in Currencies :
        call' = [op |-> "convert", arg |-> <<a, from, to>>, pre |-> iter,
                 ret |-> FALSE, val |-> convert(a, from, to)]
    /\ fresh' = -1
    /\ UNCHANGED <<cap, currency, rate, len, live>>
    /\ UNCHANGED <<parseVars, urlVars, sendVars, ordVars, concVars>>

\* (the table actions are those of a caller that owns the table; while a fetch
\* holds `&mut Rates` the caller cannot call them)
NextRates == New \/ Clear \/ Push \/ ExtendCapped \/ Get

\* a caller about to convert: it owns a table that pushes have filled with up
\* to N entries, a rate of 0 among them
ConvertRates == RateValues \cup {0}
InitConvert ==
    /\ cap \in 1..MaxCap
    /\ live \in SeqsUpTo(Currencies \X ConvertRates, cap)
    /\ len = Len(live)
    /\ currency = [i \in 1..cap |-> IF i <= Len(live) THEN live[i][1] ELSE UninitCode]
    /\ rate = [i \in 1..cap |-> IF i <= Len(live) THEN live[i][2] ELSE UninitRate]
    /\ call = NoCall
    /\ fresh = -1

NextConvert == Convert

----------------------------------------------------------------------------
(* latest::Builder and the URL writer *)

\* b"https://api.currencyapi.com/v3/latest"
ENDPOINT == <<104,116,116,112,115,58,47,47,97,112,105,46,99,117,114,114,101,110,
              99,121,97,112,105,46,99,111,109,47,118,51,47,108,97,116,101,115,116>>
QUESTION == <<63>>      \* b"?"
AMPERSAND == <<38>>     \* b"&"
COMMA == <<44>>         \* b","
BASE_CURRENCY_EQ == <<98,97,115,101,95,99,117,114,114,101,110,99,121,61>>  \* b"base_currency="
CURRENCIES_EQ == <<99,117,114,114,101,110,99,105,101,115,61>>              \* b"currencies="

\* "https://api.currencyapi.com/v3/latest?base_currency=XXX&currencies=".len()
URL_PREFIX_LEN == 67
URL_SLACK == 30
\* variant: three bytes for each known code, nothing for the commas
URL_BUF_CAPACITY_3 == URL_PREFIX_LEN + ARRAY_LEN * 3 - 1

URL_BUF_CAPACITY == URL_PREFIX_LEN + (ARRAY_LEN + URL_SLACK) * 4 - 1

\* the values of Builder::base_currency
NoBaseCurrency == [kind |-> "NoBaseCurrency", some |-> FALSE, code |-> Zero8]
BaseCurrency(c) == [kind |-> "BaseCurrency", some |-> TRUE, code |-> c]
BaseCurrencyOption(present, c) ==
    [kind |-> "BaseCurrencyOption", some |-> present, code |-> IF present THEN c ELSE Zero8]

\* the writer `&mut url_buf[..]`: the buffer, the bytes written, and whether a
\* write_all failed (the slice was full)
NewWriter == [buf |-> [i \in 1..URL_BUF_CAPACITY |-> 0], pos |-> 0, err |-> FALSE]

\* io::Write::write_all for &mut [u8]: copies what fits; fails when not all fits
write_all(w, data) ==
    LET room == URL_BUF_CAPACITY - w.pos
        n == Min(Len(data), room)
    IN  [buf |-> SubSeq(w.buf, 1, w.pos) \o SubSeq(data, 1, n)
                    \o SubSeq(w.buf, w.pos + n + 1, URL_BUF_CAPACITY),
         pos |-> w.pos + n,
         err |-> w.err \/ Len(data) > room]

\* private::BaseCurrencyUrlPart::write_url_part for the three base currency
\* types: the writer afterwards and the returned bool
write_url_part(base, w, prefix) ==
    CASE base.kind = "NoBaseCurrency" -> [w |-> w, ret |-> FALSE]
      [] base.kind = "BaseCurrency" ->
            [w |-> write_all(write_all(write_all(w, prefix), BASE_CURRENCY_EQ), as_ref(base.code)),
             ret |-> TRUE]
      [] base.kind = "BaseCurrencyOption" ->
            IF base.some
            THEN [w |-> write_all(write_all(write_all(w, prefix), BASE_CURRENCY_EQ), as_ref(base.code)),
                  ret |-> TRUE]
            ELSE [w |-> w, ret |-> TRUE]

\* the loop `for currency in currencies` of write_url: a comma and the code
\* for each currency in turn, up to the first write that fails (its unwrap
\* ends the loop). The currencies are taken half by half, which keeps the
\* nesting of the definition shallow for long selections.
RECURSIVE write_rest(_, _)
write_rest(w, cs) ==
    IF cs = <<>> \/ w.err THEN w
    ELSE IF Len(cs) = 1 THEN write_all(write_all(w, COMMA), as_ref(cs[1]))
    ELSE LET h == Len(cs) \div 2
             w1 == write_rest(w, SubSeq(cs, 1, h))
         IN  IF w1.err THEN w1 ELSE write_rest(w1, SubSeq(cs, h + 1, Len(cs)))

\* Builder::write_url: the writer after all writes
write_url(b, w) ==
    LET w1 == write_all(w, ENDPOINT)
        part == write_url_part(b.base_currency, w1, QUESTION)
        sep == IF part.ret THEN AMPERSAND ELSE QUESTION
    IN  IF b.currencies = <<>> THEN part.w
        ELSE write_rest(
                write_all(write_all(write_all(part.w, sep), CURRENCIES_EQ), as_ref(b.currencies[1])),
                Tail(b.currencies))

\* str::parse::<reqwest::Url>: the text up to the first '?' (scheme, host and
\* path) and the query after it, if any
url_parse(text) ==
    LET qs == {i \in 1..Len(text) : text[i] = QUESTION[1]}
    IN  IF qs = {} THEN [path |-> text, query |-> <<>>, has_query |-> FALSE]
        ELSE LET q == CHOOSE i \in qs : \A j \in qs : i <= j
             IN  [path |-> SubSeq(text, 1, q - 1),
                  query |-> SubSeq(text, q + 1, Len(text)),
                  has_query |-> TRUE]

\* Url::as_str
as_str(u) == IF u.has_query THEN u.path \o QUESTION \o u.query ELSE u.path

NoUrl == [path |-> <<>>, query |-> <<>>, has_query |-> FALSE]

\* token.parse::<HeaderValue>(): a token with a line break is no header value
header_value_ok(token) == token \notin {"\n", "T\n"}

\* impl From<Builder> for Request: the request, or a panic when a write failed
\* or the token is no header value
from_builder(b) ==
    LET w == write_url(b, NewWriter)
        url_len == w.pos
        url_buf == SubSeq(w.buf, 1, url_len)
    IN  IF w.err \/ ~header_value_ok(b.token)
        THEN [panic |-> TRUE, url |-> NoUrl, apikey |-> "", from |-> b]
        ELSE [panic |-> FALSE, url |-> url_parse(url_buf), apikey |-> b.token, from |-> b]

Tokens == {"T"}
UrlCodes == {USD, EUR, AVAX}

\* Builder::new
builder_new(token) ==
    [token |-> token, base_currency |-> NoBaseCurrency, currencies |-> <<>>]

NoRequest == [panic |-> FALSE, url |-> NoUrl, apikey |-> "", from |-> builder_new("")]

UrlIdle ==
    /\ builder = builder_new("")
    /\ request = NoRequest
    /\ build_seq = -1

InitUrl ==
    /\ \E t \in Tokens : builder = builder_new(t)
    /\ request = NoRequest
    /\ build_seq = 0

\* Builder::currencies
SetCurrencies ==
    /\ build_seq >= 0 /\ build_seq < MaxBuilderSteps
    /\ \E cs \in SeqsUpTo(UrlCodes, MaxSel) : builder' = [builder EXCEPT !.currencies = cs]
    /\ build_seq' = build_seq + 1
    /\ UNCHANGED request
    /\ UNCHANGED <<ratesVars, parseVars, sendVars, ordVars, concVars>>

\* Builder::base_currency with a CurrencyCode or an Option<CurrencyCode>
SetBaseCurrency ==
    /\ build_seq >= 0 /\ build_seq < MaxBuilderSteps
    /\ \E base \in {BaseCurrency(c) : c \in UrlCodes}
                     \cup {BaseCurrencyOption(TRUE, c) : c \in UrlCodes}
                     \cup {BaseCurrencyOption(FALSE, USD)} :
            builder' = [builder EXCEPT !.base_currency = base]
    /\ build_seq' = build_seq + 1
    /\ UNCHANGED request
    /\ UNCHANGED <<ratesVars, parseVars, sendVars, ordVars, concVars>>

\* Builder::base_currency_clear
BaseCurrencyClear ==
    /\ build_seq >= 0 /\ build_seq < MaxBuilderSteps
    /\ builder' = [builder EXCEPT !.base_currency = NoBaseCurrency]
    /\ build_seq' = build_seq + 1
    /\ UNCHANGED request
    /\ UNCHANGED <<ratesVars, parseVars, sendVars, ordVars, concVars>>

\* Builder::build
Build ==
    /\ build_seq >= 0
    /\ request' = from_builder(builder)
    /\ UNCHANGED <<builder, build_seq>>
    /\ UNCHANGED <<ratesVars, parseVars, sendVars, ordVars, concVars>>

NextUrl == SetCurrencies \/ SetBaseCurrency \/ BaseCurrencyClear \/ Build

\* builders at the limits of the buffer: a base currency of each length in
\* each form, with a selection that is a head of list::ARRAY, the whole of it
\* included, or the whole list followed by a head of it
CapBases ==
    {NoBaseCurrency, BaseCurrencyOption(FALSE, USD)}
      \cup {BaseCurrency(c) : c \in {OP, USD, AVAX, MATIC}}
      \cup {BaseCurrencyOption(TRUE, c) : c \in {OP, USD, AVAX, MATIC}}
KnownLens == {0, 1, 2, 92, ARRAY_LEN - 1, ARRAY_LEN}
OverLens == 26..36
CapSelections ==
    {SubSeq(ARRAY, 1, k) : k \in KnownLens}
      \cup {ARRAY \o SubSeq(ARRAY, 1, k) : k \in OverLens}

InitCap ==
    /\ \E t \in Tokens, base \in CapBases, cs \in CapSelections :
        builder = [token |-> t, base_currency |-> base, currencies |-> cs]
    /\ request = NoRequest
    /\ build_seq = MaxBuilderSteps

NextCap == Build

----------------------------------------------------------------------------
(* latest::Request::send *)

\* the quota headers, in the order RateLimit::try_from reads them
HEADER_NAMES == <<"X-RateLimit-Limit-Quota-Minute", "X-RateLimit-Limit-Quota-Month",
                  "X-RateLimit-Remaining-Quota-Minute", "X-RateLimit-Remaining-Quota-Month">>

\* header values: "7", "x", "7x"; NoHeader stands for a header that is absent
NoHeader == <<0>>
HeaderValues == {<<55>>, <<120>>, <<55, 120>>}

\* the header maps of the model: all four headers "7", one of them deviating,
\* or all of them absent
HeaderMaps ==
    {[i \in 1..4 |-> IF i = k THEN v ELSE <<55>>] :
        k \in 1..4, v \in HeaderValues \cup {NoHeader}}
      \cup {[i \in 1..4 |-> NoHeader]}

IsDigit(c) == c \in 48..57

RECURSIVE DigitsValue(_, _)
DigitsValue(ds, acc) ==
    IF ds = <<>> THEN acc ELSE DigitsValue(Tail(ds), acc * 10 + (ds[1] - 48))

\* atoi::atoi::<usize>: the number spelled by the leading digits, None (<<>>)
\* when there is no leading digit
atoi(text) ==
    LET stop == {i \in 1..Len(text) : ~IsDigit(text[i])}
        k == IF stop = {} THEN Len(text) ELSE (CHOOSE i \in stop : \A j \in stop : i <= j) - 1
    IN  IF k = 0 THEN <<>> ELSE <<DigitsValue(SubSeq(text, 1, k), 0)>>

\* the closure h of RateLimit::try_from: the header, if present, through atoi
header_value(headers, i) ==
    IF headers[i] = NoHeader THEN <<>> ELSE atoi(headers[i])

\* a conversion that gives up on the first header only and reads a header
\* it cannot parse as 0
rate_limit_try_from_first(kind, headers) ==
    IF kind = "RateLimitIgnore" THEN [ok |-> TRUE, kind |-> kind, vals |-> <<>>]
    ELSE IF header_value(headers, 1) = <<>>
         THEN [ok |-> FALSE, kind |-> kind, vals |-> <<>>]
         ELSE [ok |-> TRUE, kind |-> kind,
               vals |-> [i \in 1..4 |-> IF header_value(headers, i) = <<>> THEN 0
                                        ELSE header_value(headers, i)[1]]]

\* impl TryFrom<&reqwest::Response> for RateLimit / RateLimitIgnore
rate_limit_try_from(kind, headers) ==
    IF kind = "RateLimitIgnore" THEN [ok |-> TRUE, kind |-> kind, vals |-> <<>>]
    ELSE IF \E i \in 1..4 : header_value(headers, i) = <<>>
         THEN [ok |-> FALSE, kind |-> kind, vals |-> <<>>]
         ELSE [ok |-> TRUE, kind |-> kind, vals |-> [i \in 1..4 |-> header_value(headers, i)[1]]]

\* reqwest::Response::error_for_status: an error for 4xx and 5xx
error_for_status(status) == status \in 400..599

\* the statuses a response comes with
Statuses == {200, 304, 404, 429, 500}

\* texts of meta.last_updated_at and what DateTime::from_str makes of them
TsTexts == {"2024-01-01T00:00:00Z", "soon"}
parse_datetime(text) ==
    IF text = "2024-01-01T00:00:00Z" THEN <<1704067200>> ELSE <<>>

\* raw texts of an entry's value and what FromScientific::parse_scientific
\* makes of them ("" stands for an entry without a value field)
ValueTexts == {"1", "2e0", "\"x\""}
parse_scientific(text) ==
    CASE text = "1" -> <<1>>
      [] text = "2e0" -> <<2>>
      [] OTHER -> <<>>

\* the keys of the data object: "USD", "EUR", "ILS", "usd"
KEY_USD == <<85, 83, 68>>
KEY_EUR == <<69, 85, 82>>
KEY_ILS == <<73, 76, 83>>
KEY_LOWER == <<117, 115, 100>>

\* the data objects of the model: sets of entries [key, value]
DataObjects ==
    {(IF u = "-" THEN {} ELSE {[key |-> KEY_USD, value |-> u]})
       \cup (IF e = "-" THEN {} ELSE {[key |-> KEY_EUR, value |-> e]})
       \cup (IF l = <<>> THEN {} ELSE {[key |-> l, value |-> "1"]}) :
        u \in ValueTexts \cup {"-", ""}, e \in {"-", "2e0", "\"x\""},
        l \in {<<>>, KEY_ILS, KEY_LOWER}}

NotJson == [json |-> FALSE, has_meta |-> FALSE, has_ts |-> FALSE, ts |-> "",
            has_data |-> FALSE, data |-> {}]

\* the payloads of the model
Bodies ==
    {NotJson}
      \cup {[json |-> TRUE, has_meta |-> FALSE, has_ts |-> FALSE, ts |-> "",
             has_data |-> TRUE, data |-> d] : d \in DataObjects}
      \cup {[json |-> TRUE, has_meta |-> TRUE, has_ts |-> FALSE, ts |-> "",
             has_data |-> TRUE, data |-> d] : d \in DataObjects}
      \cup {[json |-> TRUE, has_meta |-> TRUE, has_ts |-> TRUE, ts |-> t,
             has_data |-> TRUE, data |-> d] : t \in TsTexts, d \in DataObjects}
      \cup {[json |-> TRUE, has_meta |-> TRUE, has_ts |-> TRUE, ts |-> t,
             has_data |-> FALSE, data |-> {}] : t \in TsTexts}

\* serde_json::from_slice::<Payload>: whether the payload deserializes
from_slice_ok(b) ==
    /\ b.json
    /\ b.has_meta
    /\ b.has_ts
    /\ b.has_data
    /\ \A en \in b.data : en.value # ""

\* the orders in which the HashMap of the data object may be iterated
Orders(data) ==
    {o \in [1..Cardinality(data) -> data] : \A i, j \in 1..Cardinality(data) : i # j => o[i] # o[j]}

\* currency.parse(): the keys of the model hold no zero byte, so from_str has
\* one result
parse_key(key) == CHOOSE r \in from_str(key) : TRUE

\* variant: only the first entry asked for is parsed and pushed
extend_mapped_first(t, n, order) ==
    IF order = <<>> THEN [t |-> [t EXCEPT !.ret = TRUE], panic |-> FALSE]
    ELSE LET k == parse_key(order[1].key)
             v == parse_scientific(order[1].value)
         IN  IF k.tag # "Ok" \/ v = <<>> THEN [t |-> t, panic |-> TRUE]
             ELSE [t |-> push(t, n, k.code, v[1]), panic |-> FALSE]

\* variant: an entry the full table refuses aborts the decoding
RECURSIVE extend_mapped_strict(_, _, _)
extend_mapped_strict(t, n, order) ==
    IF order = <<>> THEN [t |-> [t EXCEPT !.ret = TRUE], panic |-> FALSE]
    ELSE LET k == parse_key(order[1].key)
             v == parse_scientific(order[1].value)
         IN  IF k.tag # "Ok" \/ v = <<>> THEN [t |-> t, panic |-> TRUE]
             ELSE LET p == push(t, n, k.code, v[1])
                  IN  IF ~p.ret THEN [t |-> p, panic |-> TRUE]
                      ELSE extend_mapped_strict(p, n, Tail(order))

\* rates.extend_capped over the lazily mapped entries: each entry is parsed
\* when the loop asks for it (a failed parse panics), then pushed; the first
\* refused push ends the loop
RECURSIVE extend_mapped(_, _, _)
extend_mapped(t, n, order) ==
    IF order = <<>> THEN [t |-> [t EXCEPT !.ret = TRUE], panic |-> FALSE]
    ELSE LET k == parse_key(order[1].key)
             v == parse_scientific(order[1].value)
         IN  IF k.tag # "Ok" \/ v = <<>> THEN [t |-> t, panic |-> TRUE]
             ELSE LET p == push(t, n, k.code, v[1])
                  IN  IF ~p.ret THEN [t |-> p, panic |-> FALSE]
                      ELSE extend_mapped(p, n, Tail(order))

NoResponse == [received |-> FALSE, status |-> 0, headers |-> [i \in 1..4 |-> NoHeader]]
NoRateLimit == [ok |-> FALSE, kind |-> "", vals |-> <<>>]
NoOutcome == [tag |-> "None", err |-> "", last_updated_at |-> <<>>, rate_limit |-> NoRateLimit]
ErrOutcome(e) == [tag |-> "Err", err |-> e, last_updated_at |-> <<>>, rate_limit |-> NoRateLimit]
PanicOutcome == [tag |-> "Panic", err |-> "", last_updated_at |-> <<>>, rate_limit |-> NoRateLimit]
OkOutcome(ts, rl) == [tag |-> "Ok", err |-> "", last_updated_at |-> ts, rate_limit |-> rl]

SendIdle ==
    /\ spc = "idle"
    /\ rl_kind = ""
    /\ response = NoResponse
    /\ body = NotJson
    /\ outcome = NoOutcome
    /\ steps = {}

\* a caller about to send: it owns a table that is empty or holds one entry
InitSend ==
    /\ spc = "start"
    /\ rl_kind \in {"RateLimit", "RateLimitIgnore"}
    /\ response = NoResponse
    /\ body = NotJson
    /\ outcome = NoOutcome
    /\ steps = {}
    /\ cap \in 1..MaxCap
    /\ live \in SeqsUpTo(Entries, 1)
    /\ len = Len(live)
    /\ currency = [i \in 1..cap |-> IF i <= Len(live) THEN live[i][1] ELSE UninitCode]
    /\ rate = [i \in 1..cap |-> IF i <= Len(live) THEN live[i][2] ELSE UninitRate]
    /\ call = NoCall
    /\ fresh = -1
    /\ \E t \in Tokens :
        /\ builder = builder_new(t)
        /\ request = from_builder(builder_new(t))
    /\ build_seq = -1

\* client.execute(self.0).await fails: the transport error is returned
ExecuteFails ==
    /\ spc = "start"
    /\ outcome' = ErrOutcome("HttpError")
    /\ spc' = "done"
    /\ UNCHANGED <<rl_kind, response, body, steps>>
    /\ UNCHANGED <<ratesVars, parseVars, urlVars, ordVars, concVars>>

\* client.execute(self.0).await hands back a response
Execute ==
    /\ spc = "start"
    /\ \E st \in Statuses, hs \in HeaderMaps :
        response' = [received |-> TRUE, status |-> st, headers |-> hs]
    /\ spc' = "responded"
    /\ UNCHANGED <<rl_kind, body, outcome, steps>>
    /\ UNCHANGED <<ratesVars, parseVars, urlVars, ordVars, concVars>>

\* send from the response up to response.bytes().await: the status tests and
\* the conversion of the headers into the rate-limit data
CheckStatus ==
    /\ spc = "responded"
    /\ IF response.status = 429
       THEN /\ outcome' = ErrOutcome("RateLimitError")
            /\ spc' = "done"
            /\ steps' = steps
       ELSE IF error_for_status(response.status)
       THEN /\ outcome' = ErrOutcome("HttpError")
            /\ spc' = "done"
            /\ steps' = steps
       ELSE LET rl == rate_limit_try_from(rl_kind, response.headers)
            IN  /\ steps' = steps \cup {"rate_limit"}
                /\ IF rl.ok
                   THEN /\ outcome' = [NoOutcome EXCEPT !.rate_limit = rl]
                        /\ spc' = "awaiting_body"
                   ELSE /\ outcome' = ErrOutcome("RateLimitParseError")
                        /\ spc' = "done"
    /\ UNCHANGED <<rl_kind, response, body>>
    /\ UNCHANGED <<ratesVars, parseVars, urlVars, ordVars, concVars>>

\* response.bytes().await fails: the transport error is returned
BytesFails ==
    /\ spc = "awaiting_body"
    /\ outcome' = ErrOutcome("HttpError")
    /\ spc' = "done"
    /\ steps' = steps \cup {"body"}
    /\ UNCHANGED <<rl_kind, response, body>>
    /\ UNCHANGED <<ratesVars, parseVars, urlVars, ordVars, concVars>>

\* response.bytes().await hands back the payload; send decodes it into the
\* table and returns
Decode ==
    /\ spc = "awaiting_body"
    /\ spc' = "done"
    /\ \E b \in Bodies :
        /\ body' = b
        /\ IF ~from_slice_ok(b)
           THEN /\ outcome' = PanicOutcome
                /\ steps' = steps \cup {"body", "payload"}
                /\ UNCHANGED <<currency, rate, len, live, call>>
           ELSE IF parse_datetime(b.ts) = <<>>
           THEN /\ outcome' = PanicOutcome
                /\ steps' = steps \cup {"body", "payload", "last_updated_at"}
                /\ UNCHANGED <<currency, rate, len, live, call>>
           ELSE \E order \in Orders(b.data) :
                LET x == extend_mapped(Table, cap, order)
                IN  /\ currency' = x.t.currency
                    /\ rate' = x.t.rate
                    /\ len' = x.t.len
                    /\ live' = live \o [i \in 1..(x.t.len - len) |->
                                          <<parse_key(order[i].key).code,
                                            parse_scientific(order[i].value)[1]>>]
                    /\ call' = [op |-> "send", arg |-> order, pre |-> iter,
                                ret |-> x.t.ret, val |-> <<>>]
                    /\ steps' = steps \cup {"body", "payload", "last_updated_at", "data"}
                    /\ outcome' = IF x.panic THEN PanicOutcome
                                  ELSE OkOutcome(parse_datetime(b.ts), outcome.rate_limit)
    /\ fresh' = -1
    /\ UNCHANGED <<cap, rl_kind, response>>
    /\ UNCHANGED <<parseVars, urlVars, ordVars, concVars>>

NextSend == ExecuteFails \/ Execute \/ CheckStatus \/ BytesFails \/ Decode

----------------------------------------------------------------------------
(* Two fetches in flight at once, each into its own table *)

\* Each call of send owns its Request (self), borrows its table exclusively
\* (rates: &mut Rates) and keeps response, rate_limit and payload in locals;
\* the client is borrowed shared and read only. A fetch is a record of what
\* one call holds; the steps of the two calls are taken in any order.

Fetchers == {1, 2}

ConcIdle == conc = <<>>

\* a table value of capacity n holding the entries es
table_of(n, es) ==
    [currency |-> [i \in 1..n |-> IF i <= Len(es) THEN es[i][1] ELSE UninitCode],
     rate |-> [i \in 1..n |-> IF i <= Len(es) THEN es[i][2] ELSE UninitRate],
     len |-> Len(es), ret |-> FALSE]

\* a call of send about to start: the type parameters, the table handed in,
\* and nothing received yet
conc_start(kind, n, es) ==
    [pc |-> "start", kind |-> kind, n |-> n, pre |-> table_of(n, es), t |-> table_of(n, es),
     exec |-> "unset", response |-> NoResponse, bytes |-> "unset", body |-> NotJson,
     order |-> <<>>, rate_limit |-> NoRateLimit, outcome |-> NoOutcome,
     overlapped |-> FALSE]

\* what the transport hands the two fetches
ConcResponses ==
    {[received |-> TRUE, status |-> st, headers |-> [i \in 1..4 |-> h]] :
        st \in {200, 429, 500}, h \in {<<55>>, NoHeader}}

ConcBodies ==
    {NotJson}
      \cup {[json |-> TRUE, has_meta |-> TRUE, has_ts |-> TRUE, ts |-> "2024-01-01T00:00:00Z",
             has_data |-> TRUE,
             data |-> {[key |-> KEY_USD, value |-> "1"], [key |-> KEY_EUR, value |-> e]}] :
            e \in {"2e0", "\"x\""}}

\* client.execute(self.0).await
conc_execute(s, r) == [s EXCEPT !.exec = "ok", !.response = r, !.pc = "responded"]

conc_execute_fails(s) ==
    [s EXCEPT !.exec = "fail", !.outcome = ErrOutcome("HttpError"), !.pc = "done"]

\* the status tests and the conversion of the headers
conc_check_status(s) ==
    IF s.response.status = 429
    THEN [s EXCEPT !.outcome = ErrOutcome("RateLimitError"), !.pc = "done"]
    ELSE IF error_for_status(s.response.status)
    THEN [s EXCEPT !.outcome = ErrOutcome("HttpError"), !.pc = "done"]
    ELSE LET rl == rate_limit_try_from(s.kind, s.response.headers)
         IN  IF rl.ok THEN [s EXCEPT !.rate_limit = rl, !.pc = "awaiting_body"]
             ELSE [s EXCEPT !.outcome = ErrOutcome("RateLimitParseError"), !.pc = "done"]

\* response.bytes().await
conc_bytes(s, b) == [s EXCEPT !.bytes = "ok", !.body = b, !.pc = "received"]

conc_bytes_fails(s) ==
    [s EXCEPT !.bytes = "fail", !.outcome = ErrOutcome("HttpError"), !.pc = "done"]

\* from_slice, the timestamp, and rates.extend_capped over the entries in the
\* order the HashMap hands them out
conc_populate(s, order) ==
    IF ~from_slice_ok(s.body) \/ parse_datetime(s.body.ts) = <<>>
    THEN [s EXCEPT !.order = order, !.outcome = PanicOutcome, !.pc = "done"]
    ELSE LET x == extend_mapped(s.t, s.n, order)
         IN  [s EXCEPT !.order = order, !.t = x.t, !.pc = "done",
                       !.outcome = IF x.panic THEN PanicOutcome
                                   ELSE OkOutcome(parse_datetime(s.body.ts), s.rate_limit)]

\* Request::send run from start to end by itself on the table handed in, with
\* what the transport handed this fetch: the result and the table afterwards
send_alone(s) ==
    IF s.exec = "fail" THEN [outcome |-> ErrOutcome("HttpError"), t |-> s.pre]
    ELSE IF s.response.status = 429 THEN [outcome |-> ErrOutcome("RateLimitError"), t |-> s.pre]
    ELSE IF error_for_status(s.response.status)
    THEN [outcome |-> ErrOutcome("HttpError"), t |-> s.pre]
    ELSE LET rate_limit == rate_limit_try_from(s.kind, s.response.headers)
         IN  IF ~rate_limit.ok THEN [outcome |-> ErrOutcome("RateLimitParseError"), t |-> s.pre]
             ELSE IF s.bytes = "fail" THEN [outcome |-> ErrOutcome("HttpError"), t |-> s.pre]
             ELSE IF ~from_slice_ok(s.body) \/ parse_datetime(s.body.ts) = <<>>
             THEN [outcome |-> PanicOutcome, t |-> s.pre]
             ELSE LET x == extend_mapped(s.pre, s.n, s.order)
                  IN  [outcome |-> IF x.panic THEN PanicOutcome
                                   ELSE OkOutcome(parse_datetime(s.body.ts), rate_limit),
                       t |-> x.t]

\* whether a fetch other than f is between its first and its last step
OtherInFlight(f) == \E g \in Fetchers \ {f} : conc[g].pc \notin {"start", "done"}

\* the fetch after a step, marked when the step fell into another's flight
Stepped(f, s) == [s EXCEPT !.overlapped = @ \/ OtherInFlight(f)]

\* two callers about to send, each with a table of its own that is empty or
\* holds one entry
InitConc ==
    conc \in [Fetchers -> {conc_start(k, n, es) :
                            k \in {"RateLimit", "RateLimitIgnore"}, n \in 1..MaxCap,
                            es \in SeqsUpTo({<<USD, 2>>}, 1)}]

ConcExecuteFails ==
    /\ conc # <<>>
    /\ \E f \in Fetchers :
        /\ conc[f].pc = "start"
        /\ conc' = [conc EXCEPT ![f] = Stepped(f, conc_execute_fails(conc[f]))]
    /\ UNCHANGED <<ratesVars, parseVars, urlVars, sendVars, ordVars>>

ConcExecute ==
    /\ conc # <<>>
    /\ \E f \in Fetchers, r \in ConcResponses :
        /\ conc[f].pc = "start"
        /\ conc' = [conc EXCEPT ![f] = Stepped(f, conc_execute(conc[f], r))]
    /\ UNCHANGED <<ratesVars, parseVars, urlVars, sendVars, ordVars>>

ConcCheckStatus ==
    /\ conc # <<>>
    /\ \E f \in Fetchers :
        /\ conc[f].pc = "responded"
        /\ conc' = [conc EXCEPT ![f] = Stepped(f, conc_check_status(conc[f]))]
    /\ UNCHANGED <<ratesVars, parseVars, urlVars, sendVars, ordVars>>

ConcBytesFails ==
    /\ conc # <<>>
    /\ \E f \in Fetchers :
        /\ conc[f].pc = "awaiting_body"
        /\ conc' = [conc EXCEPT ![f] = Stepped(f, conc_bytes_fails(conc[f]))]
    /\ UNCHANGED <<ratesVars, parseVars, urlVars, sendVars, ordVars>>

ConcBytes ==
    /\ conc # <<>>
    /\ \E f \in Fetchers, b \in ConcBodies :
        /\ conc[f].pc = "awaiting_body"
        /\ conc' = [conc EXCEPT ![f] = Stepped(f, conc_bytes(conc[f], b))]
    /\ UNCHANGED <<ratesVars, parseVars, urlVars, sendVars, ordVars>>

\* variant: both fetches populate the table of the first
ConcPopulate_shared ==
    /\ conc # <<>>
    /\ \E f \in Fetchers :
        /\ conc[f].pc = "received"
        /\ \E order \in Orders(conc[f].body.data) :
            LET p == conc_populate([conc[f] EXCEPT !.t = conc[1].t], order)
            IN  conc' = [conc EXCEPT ![f] = Stepped(f, [p EXCEPT !.t = conc[f].t]),
                                     ![1].t = p.t]
    /\ UNCHANGED <<ratesVars, parseVars, urlVars, sendVars, ordVars>>

ConcPopulate ==
    /\ conc # <<>>
    /\ \E f \in Fetchers :
        /\ conc[f].pc = "received"
        /\ \E order \in Orders(conc[f].body.data) :
            conc' = [conc EXCEPT ![f] = Stepped(f, conc_populate(conc[f], order))]
    /\ UNCHANGED <<ratesVars, parseVars, urlVars, sendVars, ordVars>>

NextConc == ConcExecuteFails \/ ConcExecute \/ ConcCheckStatus \/ ConcBytesFails
              \/ ConcBytes \/ ConcPopulate

----------------------------------------------------------------------------
(* Properties of the rate table *)

\* C1: after any sequence of new, push, extend_capped and clear the count is
\* within 0..N, and currencies(), rates(), iter() and get expose exactly the
\* entries written since the last clear or creation, never a slot at or
\* beyond the count.
C1_CountBoundedViewsLive ==
    cap > 0 =>
        /\ len \in 0..cap
        /\ Len(live) = len
        /\ currencies = [i \in 1..len |-> live[i][1]]
        /\ rates = [i \in 1..len |-> live[i][2]]
        /\ iter = live
        /\ \A c \in Currencies :
            get(c) # <<>> => \E i \in 1..len : live[i] = <<c, get(c)[1]>>

\* a push after a clear: the slot above the count still holds the old entry
C1_Witness ==
    /\ cap >= 2
    /\ call.op = "push"
    /\ len = 1
    /\ currency[2] # UninitCode
    /\ live = <<<<USD, 1>>>>
    /\ currency[2] = EUR

\* C2: on a fresh table the k-th push returns true exactly when k <= N, so
\* N+1 pushes give true N times, and len() never exceeds N.
C2_PushUntilFull ==
    (cap > 0 /\ fresh >= 1) =>
        /\ call.op = "push"
        /\ call.ret <=> (fresh <= cap)
        /\ rates_len = Min(fresh, cap)
        /\ rates_len <= cap

\* the push number N+1 on a fresh table was refused
C2_Witness ==
    /\ cap > 0
    /\ fresh = cap + 1
    /\ call.op = "push"
    /\ call.ret = FALSE
    /\ len = cap

\* C3: extend_capped with f free slots and k items appends the first min(k, f)
\* items in order after the existing entries and returns true exactly when
\* k <= f.
C3_ExtendCapped ==
    (cap > 0 /\ call.op = "extend_capped") =>
        LET f == cap - Len(call.pre)
            k == Len(call.arg)
        IN  /\ iter = call.pre \o SubSeq(call.arg, 1, Min(k, f))
            /\ call.ret <=> (k <= f)
            /\ len <= cap

\* an extend_capped on a non-empty table that had room for some but not all
\* of the items
C3_Witness ==
    /\ cap > 0
    /\ call.op = "extend_capped"
    /\ Len(call.pre) = 1
    /\ Len(call.arg) = cap + 1
    /\ cap - Len(call.pre) >= 1
    /\ call.ret = FALSE
    /\ len = cap

----------------------------------------------------------------------------
(* Properties of currency code parsing *)

\* the representation invariant of a packed code
WellFormed(c) ==
    \E n \in CURRENCY_LEN_MIN..CURRENCY_LEN_MAX :
        /\ \A i \in 1..n : is_ascii_uppercase(c[i])
        /\ \A i \in (n + 1)..CODE_SIZE : c[i] = 0

AllUpper(s) == \A i \in 1..Len(s) : is_ascii_uppercase(s[i])

\* C4: every code returned by a successful parse has a length in 2..5, only
\* uppercase ASCII letters in use, and zero bytes after the code.
C4_ParsedCodeWellFormed ==
    result.tag = "Ok" => WellFormed(result.code)

\* C5: an input of length 2..5 holding a byte that is not an uppercase letter
\* fails with InvalidCharacter carrying such a byte of the input.
C5_BadByteRejected ==
    (ppc \in {"parsed", "viewed"} /\ Len(input) \in CURRENCY_LEN_MIN..CURRENCY_LEN_MAX
        /\ ~AllUpper(input)) =>
        /\ result.tag = "Err"
        /\ result.kind = "InvalidCharacter"
        /\ \E i \in 1..Len(input) : input[i] = result.byte /\ ~is_ascii_uppercase(input[i])

\* C6: an input shorter than 2 fails with TooShort and one longer than 5 with
\* TooLong, whatever its bytes are.
C6_LengthFirst ==
    ppc \in {"parsed", "viewed"} =>
        /\ Len(input) < CURRENCY_LEN_MIN => result = Err("TooShort", 0)
        /\ Len(input) > CURRENCY_LEN_MAX => result = Err("TooLong", 0)

\* a too long input made of bytes that are no letters was reported TooLong
C6_Witness ==
    /\ ppc = "parsed"
    /\ input = <<97, 0, 49, 97, 0, 49>>
    /\ result = Err("TooLong", 0)

AsciiUppercase(text) ==
    [i \in 1..Len(text) |-> IF text[i] \in 97..122 THEN text[i] - 32 ELSE text[i]]

\* C21: parsing a code from text is case-insensitive: for every text s,
\* s.parse() gives the same result as parsing the ASCII-uppercased s, so "usd"
\* and "USD" parse to the same code.
C21_ParseCaseInsensitive ==
    ppc \in {"parsed", "viewed"} => result \in from_str(AsciiUppercase(input))

----------------------------------------------------------------------------
(* Properties of the request URL *)

\* the letters of a code: its bytes up to the zero padding
CodeText(c) == SelectSeq(c, LAMBDA x : x # 0)

RECURSIVE Join(_)
Join(cs) ==
    IF cs = <<>> THEN <<>>
    ELSE IF Len(cs) = 1 THEN CodeText(cs[1])
    ELSE CodeText(cs[1]) \o COMMA \o Join(Tail(cs))

Contains(text, t) ==
    \E i \in 1..(Len(text) - Len(t) + 1) : SubSeq(text, i, i + Len(t) - 1) = t

EndsWith(text, t) ==
    Len(text) >= Len(t) /\ SubSeq(text, Len(text) - Len(t) + 1, Len(text)) = t

Built == request # NoRequest /\ ~request.panic

\* whether the builder holds a base currency, in the plain or the optional form
HasBase(b) == b.base_currency.some

\* the URL the builder is to serialize to: the first parameter emitted is
\* introduced by '?', every later one by '&'
ExpectedUrl(b) ==
    LET baseSeg == IF HasBase(b)
                   THEN QUESTION \o BASE_CURRENCY_EQ \o CodeText(b.base_currency.code)
                   ELSE <<>>
        curSeg == IF b.currencies # <<>>
                  THEN (IF HasBase(b) THEN AMPERSAND ELSE QUESTION)
                         \o CURRENCIES_EQ \o Join(b.currencies)
                  ELSE <<>>
    IN  ENDPOINT \o baseSeg \o curSeg

\* C8: in every builder state the serialized URL is the endpoint, then the
\* base_currency parameter (if any), then the currencies parameter (if any),
\* the first parameter emitted being introduced by '?' and later ones by '&'.
C8_UrlSeparators ==
    Built => as_str(request.url) = ExpectedUrl(request.from)

\* the segments of the URL without regard to the separators
UrlSegments(b, url) ==
    /\ Contains(url, BASE_CURRENCY_EQ) <=> HasBase(b)
    /\ HasBase(b) => Contains(url, BASE_CURRENCY_EQ \o CodeText(b.base_currency.code))
    /\ Contains(url, CURRENCIES_EQ) <=> b.currencies # <<>>
    /\ b.currencies # <<>> => EndsWith(url, CURRENCIES_EQ \o Join(b.currencies))
    /\ (b.currencies = <<>> /\ HasBase(b)) =>
            EndsWith(url, BASE_CURRENCY_EQ \o CodeText(b.base_currency.code))
    /\ (b.currencies = <<>> /\ ~HasBase(b)) => url = ENDPOINT

\* C9: the URL holds a base_currency=<code> segment exactly when a base
\* currency is present and a currencies= segment exactly when the selection is
\* not empty, the codes in selection order joined by single commas, nothing
\* after the last written byte; with the base absent and [USD, EUR] it ends in
\* ?currencies=USD,EUR, with base EUR and no selection it contains
\* ?base_currency=EUR and no currencies=.
C9_UrlSegments ==
    Built =>
        LET b == request.from
            url == as_str(request.url)
        IN  /\ UrlSegments(b, url)
            /\ (~HasBase(b) /\ b.currencies = <<USD, EUR>>) =>
                    EndsWith(url, QUESTION \o CURRENCIES_EQ \o Join(<<USD, EUR>>))
            /\ (HasBase(b) /\ b.base_currency.code = EUR /\ b.currencies = <<>>) =>
                    /\ Contains(url, QUESTION \o BASE_CURRENCY_EQ \o CodeText(EUR))
                    /\ ~Contains(url, CURRENCIES_EQ)

\* the builder with its optional base currency put in the plain form: no base
\* currency for None, the base currency c for Some(c)
PlainForm(b) ==
    [b EXCEPT !.base_currency = IF b.base_currency.some
                                THEN BaseCurrency(b.base_currency.code)
                                ELSE NoBaseCurrency]

\* the base currency part as write_url asks for it: after the endpoint, with
\* the prefix '?'
BasePart(b) == write_url_part(b.base_currency, write_all(NewWriter, ENDPOINT), QUESTION)

\* C24: the base currency writer returns true exactly when it wrote a
\* base_currency segment, so a builder with an optional base currency builds
\* the URL of the plain form: Option-None the URL of no base currency,
\* Option-Some(c) the URL of base currency c, whatever the selection.
C24_OptionalBaseIsPlainForm ==
    Built =>
        LET b == request.from
        IN  /\ BasePart(b).ret <=> BasePart(b).w.pos > Len(ENDPOINT)
            /\ request.url = from_builder(PlainForm(b)).url

\* the places of the entries written for code c since the last clear
Places(c) == {i \in 1..Len(live) : live[i][1] = c}

\* the rate first written for code c since the last clear, as an Option
FirstWritten(c) ==
    IF Places(c) = {} THEN <<>>
    ELSE <<live[CHOOSE i \in Places(c) : \A j \in Places(c) : i <= j][2]>>

\* C15: get(code) returns the rate stored at the smallest index whose code
\* equals the one asked for, and None when no entry has that code; after the
\* same code was pushed twice with different rates get returns the first.
C15_GetFirstMatch ==
    (cap > 0 /\ call.op = "get") => call.val = FirstWritten(call.arg[1])

\* USD was pushed with rate 1, then with rate 2, and get(USD) returned 1
C15_Witness ==
    /\ call.op = "get"
    /\ call.arg = <<USD>>
    /\ live = <<<<USD, 1>>, <<USD, 2>>>>
    /\ call.val = <<1>>

\* C16: convert(amount, from, to) returns None exactly when from or to has no
\* entry; otherwise it returns amount * (rate(to) / rate(from)) with the rates
\* get returns, and the table is left unchanged.
C16_Convert ==
    (cap > 0 /\ call.op = "convert") =>
        LET a == call.arg[1]
            rf == FirstWritten(call.arg[2])
            rt == FirstWritten(call.arg[3])
        IN  /\ call.val = <<>> <=> (rf = <<>> \/ rt = <<>>)
            /\ (rf # <<>> /\ rt # <<>>) =>
                    call.val = <<rate_mul(a, rate_div(rt[1], rf[1]))>>
            /\ iter = call.pre
            /\ live = call.pre

\* 3 was converted from EUR at 2 to USD at 1: one and a half
C16_Witness ==
    /\ call.op = "convert"
    /\ call.arg = <<3, EUR, USD>>
    /\ live = <<<<USD, 1>>, <<EUR, 2>>>>
    /\ call.val = <<[num |-> 3, den |-> 2]>>

\* C17: for every currency X present in the table, whatever rate is stored
\* for it, and every amount, convert(amount, X, X) returns exactly amount.
C17_ConvertIdentityAnyRate ==
    (cap > 0 /\ call.op = "convert" /\ call.arg[2] = call.arg[3]
        /\ FirstWritten(call.arg[2]) # <<>>) =>
        call.val = <<[num |-> call.arg[1], den |-> 1]>>

\* C17 (amended): for every currency X present in the table whose rate, the
\* one get returns, is not zero, and every amount, convert(amount, X, X)
\* returns exactly amount.
C17_ConvertIdentityNonZero ==
    (cap > 0 /\ call.op = "convert" /\ call.arg[2] = call.arg[3]
        /\ FirstWritten(call.arg[2]) # <<>>
        /\ FirstWritten(call.arg[2]) # <<0>>) =>
        call.val = <<[num |-> call.arg[1], den |-> 1]>>

\* 3 was converted from EUR to EUR at rate 2 and came back as 3
C17_Witness ==
    /\ call.op = "convert"
    /\ call.arg = <<3, EUR, EUR>>
    /\ FirstWritten(EUR) = <<2>>
    /\ call.val = <<[num |-> 3, den |-> 1]>>

\* C18: after clear() on a table in any state len() is 0, is_empty() is true,
\* iter() yields nothing and get returns None for every code; the capacity is
\* unchanged, and the entries stored before the clear are never observable
\* again: after later pushes only the newly pushed entries are visible.
C18_ClearEmpties ==
    cap > 0 =>
        /\ call.op = "clear" =>
            /\ rates_len = 0
            /\ is_empty
            /\ iter = <<>>
            /\ currencies = <<>>
            /\ rates = <<>>
            /\ \A c \in Currencies : get(c) = <<>>
        /\ DOMAIN currency = 1..cap
        /\ DOMAIN rate = 1..cap
        /\ call.op = "push" => (call.ret <=> Len(call.pre) < cap)
        /\ iter = live
        /\ \A c \in Currencies : get(c) = FirstWritten(c)

\* a full table of capacity 2 was cleared: its slots still hold the old
\* entries, its views are empty
C18_Witness ==
    /\ cap = 2
    /\ call.op = "clear"
    /\ Len(call.pre) = 2
    /\ currency[1] # UninitCode
    /\ currency[2] # UninitCode
    /\ len = 0
    /\ iter = <<>>

\* C27: for every capacity N, also N > 255, the stored 8-bit count equals the
\* number of pushes that succeeded since creation or the last clear: it never
\* wraps or resets, a table of capacity N accepts exactly N pushes, each
\* returning true, refuses the next, and len() then reports N.
C27_CountIsPushes ==
    cap \in WideCaps =>
        /\ rates_len = Len(live)
        /\ call.op # "push_overflow"
        /\ call.op = "push" =>
            /\ call.ret => Len(live) <= cap
            /\ ~call.ret => Len(live) = cap /\ rates_len = cap

\* the letters of the codes of a selection, counted
RECURSIVE SumLen(_)
SumLen(cs) ==
    IF cs = <<>> THEN 0
    ELSE IF Len(cs) = 1 THEN Len(CodeText(cs[1]))
    ELSE SumLen(SubSeq(cs, 1, Len(cs) \div 2)) + SumLen(SubSeq(cs, Len(cs) \div 2 + 1, Len(cs)))

\* the number of bytes the builder is to serialize to
SerializedLen(b) ==
    Len(ENDPOINT)
      + (IF HasBase(b)
         THEN 1 + Len(BASE_CURRENCY_EQ) + Len(CodeText(b.base_currency.code)) ELSE 0)
      + (IF b.currencies # <<>>
         THEN 1 + Len(CURRENCIES_EQ) + SumLen(b.currencies) + Len(b.currencies) - 1 ELSE 0)

\* a base currency of the known list, or none, and a selection of known codes
\* without duplicates
KnownBuilder(b) ==
    /\ HasBase(b) => \E i \in 1..Len(ARRAY) : ARRAY[i] = b.base_currency.code
    /\ \A i \in 1..Len(b.currencies) : \E j \in 1..Len(ARRAY) : ARRAY[j] = b.currencies[i]
    /\ \A i, j \in 1..Len(b.currencies) : i # j => b.currencies[i] # b.currencies[j]

\* C22: for every base currency of the known list, or none, and every
\* selection of known codes without duplicates, up to the whole list, the
\* serialized URL is no longer than the buffer, so build does not abort; only
\* a serialization longer than the buffer aborts, and it aborts with a panic.
C22_UrlFitsCapacity ==
    request # NoRequest =>
        /\ Len(ARRAY) = ARRAY_LEN
        /\ KnownBuilder(request.from) =>
            /\ ~request.panic
            /\ Len(as_str(request.url)) <= URL_BUF_CAPACITY
        /\ request.panic <=> SerializedLen(request.from) > URL_BUF_CAPACITY
        /\ ~request.panic => Len(as_str(request.url)) = SerializedLen(request.from)

\* the whole list with the longest base currency was built: 809 bytes
C22_Witness ==
    /\ request # NoRequest
    /\ request.from.currencies = ARRAY
    /\ request.from.base_currency = BaseCurrency(MATIC)
    /\ ~request.panic
    /\ Len(as_str(request.url)) = 809

----------------------------------------------------------------------------
(* Properties of the fetch *)

\* the status of the response has been classified
StatusClassified == response.received /\ spc \in {"awaiting_body", "done"}

\* C10: the status is classified before headers and body are looked at: 429
\* yields RateLimitError whatever the headers and the body are, every other
\* status outside 200..299 yields HttpError, and in both cases no decoding
\* step is taken.
C10_StatusFirst ==
    StatusClassified =>
        /\ response.status = 429 =>
                outcome = ErrOutcome("RateLimitError") /\ steps = {}
        /\ (response.status # 429 /\ response.status \notin 200..299) =>
                outcome = ErrOutcome("HttpError") /\ steps = {}

\* the payload has been handed to the decoder (response.bytes() succeeded)
Decoded == spc = "done" /\ "payload" \in steps

\* an entry of the data object whose key is no currency code or whose value
\* is missing or is no number
BadEntry(en) ==
    \/ parse_key(en.key).tag # "Ok"
    \/ en.value = ""
    \/ parse_scientific(en.value) = <<>>

\* a JSON payload that lacks meta, meta.last_updated_at or data, or whose
\* timestamp is no date-time, or that holds a bad entry
MalformedBody(b) ==
    /\ b.json
    /\ \/ ~b.has_meta
       \/ ~b.has_ts
       \/ ~b.has_data
       \/ parse_datetime(b.ts) = <<>>
       \/ \E en \in b.data : BadEntry(en)

\* C11: for a response with a success status whose payload is malformed
\* (meta, last_updated_at, data or an entry's value missing, a timestamp that
\* is no date-time, a key that is no currency code, a value that is no number)
\* the fetch returns ResponseParseError: it neither aborts nor reports success.
C11_MalformedBodyIsParseError ==
    (Decoded /\ response.status \in 200..299 /\ MalformedBody(body)) =>
        outcome = ErrOutcome("ResponseParseError")

\* a header that is present and spells an unsigned integer, digits only
IsUnsigned(h) == h # NoHeader /\ \A i \in 1..Len(h) : IsDigit(h[i])

\* a header that is present and starts with a decimal digit
StartsWithDigit(h) == h # NoHeader /\ IsDigit(h[1])

\* the status let the fetch go on to the headers
StatusPassed == StatusClassified /\ response.status \in 200..299

WellFormedBody(b) ==
    /\ from_slice_ok(b)
    /\ parse_datetime(b.ts) # <<>>
    /\ \A en \in b.data : ~BadEntry(en)

\* the entry of the table an entry of the data object decodes to
ParsedEntry(en) == <<parse_key(en.key).code, parse_scientific(en.value)[1]>>

\* C13: decoding a well-formed body with m entries into a table with f < m
\* free slots fills the table to capacity with exactly f of the entries, the
\* bulk insert reports false, and the fetch still returns success.
C13_TruncatedDecodeSucceeds ==
    (Decoded /\ WellFormedBody(body)
        /\ Cardinality(body.data) > cap - Len(call.pre)) =>
        /\ outcome.tag = "Ok"
        /\ call.op = "send"
        /\ ~call.ret
        /\ len = cap
        /\ Len(iter) = cap
        /\ SubSeq(iter, 1, Len(call.pre)) = call.pre
        /\ \A i \in (Len(call.pre) + 1)..cap :
            /\ \E en \in body.data : iter[i] = ParsedEntry(en)
            /\ \A j \in (Len(call.pre) + 1)..cap : i # j => iter[i][1] # iter[j][1]

\* three entries were decoded into an empty table of capacity 2
C13_Witness ==
    /\ Decoded
    /\ WellFormedBody(body)
    /\ cap = 2
    /\ call.pre = <<>>
    /\ Cardinality(body.data) = 3
    /\ outcome.tag = "Ok"
    /\ len = 2
    /\ ~call.ret

\* C14: a well-formed success response with m entries decoded into an empty
\* table of capacity N >= m leaves exactly m entries, one per key of the
\* payload, get(key) returns the rate parsed from that key's value, and the
\* fetch returns the Metadata with the parsed timestamp and the quota value.
C14_DecodeFillsTable ==
    (Decoded /\ WellFormedBody(body) /\ response.status \in 200..299
        /\ call.pre = <<>> /\ Cardinality(body.data) <= cap) =>
        /\ call.op = "send"
        /\ len = Cardinality(body.data)
        /\ Len(iter) = Cardinality(body.data)
        /\ \A i \in 1..Len(iter) : \E en \in body.data : iter[i] = ParsedEntry(en)
        /\ \A en \in body.data :
            get(parse_key(en.key).code) = parse_scientific(en.value)
        /\ outcome.tag = "Ok"
        /\ outcome.last_updated_at = parse_datetime(body.ts)
        /\ outcome.rate_limit = rate_limit_try_from(rl_kind, response.headers)

\* two entries, one written with an exponent, were decoded into an empty
\* table of capacity 2 under quota tracking
C14_Witness ==
    /\ Decoded
    /\ WellFormedBody(body)
    /\ response.status = 200
    /\ rl_kind = "RateLimit"
    /\ cap = 2
    /\ call.op = "send"
    /\ call.pre = <<>>
    /\ body.data = {[key |-> KEY_USD, value |-> "1"], [key |-> KEY_EUR, value |-> "2e0"]}
    /\ get(EUR) = <<2>>
    /\ outcome.rate_limit.vals = [i \in 1..4 |-> 7]

\* the rate of the first pair of entries whose currency is c, as an Option
FirstIn(entries, c) ==
    LET hits == {i \in 1..Len(entries) : entries[i][1] = c}
    IN  IF hits = {} THEN <<>>
        ELSE <<entries[CHOOSE i \in hits : \A j \in hits : i <= j][2]>>

\* C25: a fetch never clears, removes or overwrites what the table held:
\* after a decode the earlier entries are still there, in the same order, as
\* a prefix, the entries of the response follow them, and get for a code that
\* was already present still returns the old rate.
C25_DecodeAppends ==
    (Decoded /\ call.op = "send") =>
        /\ Len(call.pre) <= len
        /\ \A i \in 1..Len(call.pre) : <<currency[i], rate[i]>> = call.pre[i]
        /\ SubSeq(iter, 1, Len(call.pre)) = call.pre
        /\ \A i \in (Len(call.pre) + 1)..len :
                iter[i] = ParsedEntry(call.arg[i - Len(call.pre)])
        /\ \A c \in Currencies :
                FirstIn(call.pre, c) # <<>> => get(c) = FirstIn(call.pre, c)

\* a response with another rate for USD was decoded into a table that held
\* USD already
C25_Witness ==
    /\ Decoded
    /\ outcome.tag = "Ok"
    /\ call.op = "send"
    /\ call.pre = <<<<USD, 2>>>>
    /\ iter = <<<<USD, 2>>, <<USD, 1>>>>
    /\ get(USD) = <<2>>

\* the fetch ended without success: with an Error, or on a response it could
\* not parse (where ResponseParseError is due)
FetchFailed == spc = "done" /\ outcome.tag \in {"Err", "Panic"}

ReturnedErrorLeavesTable ==
    [][(FetchFailed' /\ outcome'.tag = "Err") => UNCHANGED <<cap, currency, rate, len>>]_vars

\* C28: decoding is a function of the response: the same body decoded a
\* second time into an empty table of the same capacity, in whatever order
\* the HashMap of that decode hands out its entries, ends as the first decode
\* did and leaves the same entries in the same order, also where the table
\* is too small and entries are dropped.
C28_DecodeDeterministic ==
    (Decoded /\ call.op = "send" /\ call.pre = <<>>) =>
        \A again \in Orders(body.data) :
            LET x == extend_mapped(new_table(cap), cap, again)
            IN  /\ x.panic <=> outcome.tag = "Panic"
                /\ table_iter(x.t) = iter

\* C23: two fetches run at once into two different tables: under every
\* interleaving of their steps (request execution, header parsing, body
\* receipt, table population) each fetch's outcome and each table's final
\* contents are what that fetch produces when it runs alone, and a table is
\* untouched until its own fetch populates it.
C23_ConcurrentAsAlone ==
    conc # <<>> =>
        \A f \in Fetchers :
            /\ conc[f].pc = "done" =>
                /\ conc[f].outcome = send_alone(conc[f]).outcome
                /\ conc[f].t = send_alone(conc[f]).t
            /\ conc[f].pc # "done" => conc[f].t = conc[f].pre

\* both fetches took steps during the other's flight and both returned Ok,
\* the first into an empty table, the second behind the entry its table held
C23_Witness ==
    /\ conc # <<>>
    /\ \A f \in Fetchers : conc[f].pc = "done" /\ conc[f].overlapped /\ conc[f].outcome.tag = "Ok"
    /\ table_iter(conc[1].t) = <<<<USD, 1>>, <<EUR, 2>>>>
    /\ table_iter(conc[2].t) = <<<<USD, 2>>, <<EUR, 2>>>>

----------------------------------------------------------------------------
(* Properties of code comparison *)

\* C19: equality, ordering and hashing of codes are consistent: a == b
\* exactly when cmp(a, b) is Equal exactly when the packed 8-byte values are
\* the same, equal codes feed the same value to the hasher, and the ordering
\* is a strict total order (total, antisymmetric, transitive).
C19_EqOrdHashConsistent ==
    /\ {"eq", "cmp"} \subseteq ord.done =>
        /\ ord.res.eq_ab <=> ord.res.cmp_ab = "Equal"
        /\ ord.res.eq_ab <=> ord.a = ord.b
    /\ {"eq", "hash"} \subseteq ord.done =>
        (ord.res.eq_ab => ord.res.hash_a = ord.res.hash_b)
    /\ "cmp" \in ord.done =>
        /\ ord.res.cmp_ab \in {"Less", "Equal", "Greater"}
        /\ ord.res.partial_ab = <<ord.res.cmp_ab>>
        /\ ord.res.cmp_aa = "Equal"
        /\ ord.res.cmp_ab = "Less" <=> ord.res.cmp_ba = "Greater"
        /\ ord.res.cmp_ab = "Equal" <=> ord.res.cmp_ba = "Equal"
        /\ (ord.res.cmp_ab = "Less" /\ ord.res.cmp_bc = "Less") => ord.res.cmp_ac = "Less"
        /\ (ord.res.cmp_ab = "Equal" /\ ord.res.cmp_bc = "Equal") => ord.res.cmp_ac = "Equal"

\* three different codes in a chain a < b < c on a little-endian target, all
\* of eq, cmp and hash taken
C19_Witness ==
    /\ ord.endian = "little"
    /\ ord.done = {"eq", "cmp", "hash"}
    /\ ~ord.res.eq_ab
    /\ ord.res.cmp_ab = "Less"
    /\ ord.res.cmp_bc = "Less"
    /\ ord.res.cmp_ac = "Less"
    /\ ord.res.hash_a # ord.res.hash_b

\* s comes before t byte-lexicographically (a proper prefix comes first)
TextLess(s, t) ==
    \E k \in 1..(Len(t)) :
        /\ \A i \in 1..(k - 1) : i <= Len(s) /\ s[i] = t[i]
        /\ \/ k = Len(s) + 1
           \/ k <= Len(s) /\ s[k] < t[k]

IsPrefix(s, t) == Len(s) <= Len(t) /\ SubSeq(t, 1, Len(s)) = s

\* a and b are valid uppercase codes of different text, and were compared
ComparedValid ==
    /\ "cmp" \in ord.done
    /\ WellFormed(ord.a)
    /\ WellFormed(ord.b)
    /\ as_ref(ord.a) # as_ref(ord.b)

\* C20: for two valid uppercase codes a and b of different text the packed
\* ordering agrees with the text ordering: a < b under the packed comparison
\* exactly when as_text(a) < as_text(b) byte-lexicographically, pairs where
\* one is a prefix of the other included.
C20_PackedOrderIsTextOrder ==
    ComparedValid =>
        (ord.res.cmp_ab = "Less" <=> TextLess(as_ref(ord.a), as_ref(ord.b)))

\* C20 (amended): the packed ordering is that of the 8 bytes read as a
\* native-endian integer. It agrees with the text ordering on a big-endian
\* target, and on every target when one text is a prefix of the other; on a
\* little-endian target the last position in which the two codes differ
\* decides.
C20_PackedOrderByEndian ==
    ComparedValid =>
        /\ (ord.endian = "big" \/ IsPrefix(as_ref(ord.a), as_ref(ord.b))
                \/ IsPrefix(as_ref(ord.b), as_ref(ord.a))) =>
            (ord.res.cmp_ab = "Less" <=> TextLess(as_ref(ord.a), as_ref(ord.b)))
        /\ ord.endian = "little" =>
            (ord.res.cmp_ab = "Less" <=>
                \E k \in 1..CODE_SIZE :
                    /\ ord.a[k] < ord.b[k]
                    /\ \A i \in (k + 1)..CODE_SIZE : ord.a[i] = ord.b[i])

\* "AB" and "ABB" were compared on a little-endian target: "AB" is less
C20_Witness ==
    /\ ord.endian = "little"
    /\ "cmp" \in ord.done
    /\ ord.a = new_unchecked(<<65, 66>>)
    /\ ord.b = new_unchecked(<<65, 66, 66>>)
    /\ ord.res.cmp_ab = "Less"

----------------------------------------------------------------------------
(* Specifications *)

\* Each run exercises one component; the variables of the others stay idle.
InitSpecRates == InitRates /\ ParseIdle /\ UrlIdle /\ SendIdle /\ OrdIdle /\ ConcIdle

SpecRates == InitSpecRates /\ [][NextRates]_vars

\* conversions on a table that pushes have filled
InitSpecConvert == InitConvert /\ ParseIdle /\ UrlIdle /\ SendIdle /\ OrdIdle /\ ConcIdle

SpecConvert == InitSpecConvert /\ [][NextConvert]_vars

InitSpecParse == InitParse /\ RatesIdle /\ UrlIdle /\ SendIdle /\ OrdIdle /\ ConcIdle

SpecParse == InitSpecParse /\ [][NextParse]_vars

InitSpecUrl == InitUrl /\ RatesIdle /\ ParseIdle /\ SendIdle /\ OrdIdle /\ ConcIdle

SpecUrl == InitSpecUrl /\ [][NextUrl]_vars

\* builds at the limits of the URL buffer
InitSpecCap == InitCap /\ RatesIdle /\ ParseIdle /\ SendIdle /\ OrdIdle /\ ConcIdle

SpecCap == InitSpecCap /\ [][NextCap]_vars

\* the table of a capacity around 256 alone
InitSpecWide == InitWide /\ ParseIdle /\ UrlIdle /\ SendIdle /\ OrdIdle /\ ConcIdle

SpecWide == InitSpecWide /\ [][NextWide]_vars

InitSpecSend == InitSend /\ ParseIdle /\ OrdIdle /\ ConcIdle

SpecSend == InitSpecSend /\ [][NextSend]_vars

\* two fetches at once
InitSpecConc == InitConc /\ RatesIdle /\ ParseIdle /\ UrlIdle /\ SendIdle /\ OrdIdle

SpecConc == InitSpecConc /\ [][NextConc]_vars

InitSpecOrd == InitOrd /\ RatesIdle /\ ParseIdle /\ UrlIdle /\ SendIdle /\ ConcIdle

SpecOrd == InitSpecOrd /\ [][NextOrd]_vars

Init == InitSpecRates \/ InitSpecConvert \/ InitSpecParse \/ InitSpecUrl \/ InitSpecCap
          \/ InitSpecSend \/ InitSpecConc
          \/ InitSpecOrd

Next == NextRates \/ NextConvert \/ NextParse \/ NextUrl \/ NextSend \/ NextConc \/ NextOrd

Spec == Init /\ [][Next]_vars

====
